---- MODULE Spec2Model ----
(***************************************************************************)
(* State-machine model of the omniTAK transport client                     *)
(* (src/claude-interface/omnitak_client/client.py, class OmniTAKClient).   *)
(*                                                                         *)
(* Spec: one client object used by one caller: every public coroutine is   *)
(* one action that runs from its call to its return or raise.  The remote  *)
(* service and the network are the environment: every request draws its    *)
(* outcome (refused, DNS failure, timeout, or a response with a status and *)
(* a body text) from a finite set.                                         *)
(*                                                                         *)
(* EncSpec: the CoT encoder (src/claude-interface/claude_tools/            *)
(* tak_geometry.py, class CotMessageBuilder), a pure function of its       *)
(* arguments, the clock and uuid4: the initial states draw the arguments,  *)
(* one action per encode method applies it.                                *)
(*                                                                         *)
(* ConcSpec: one client object shared by several asyncio tasks: every      *)
(* coroutine is cut at its suspension points, and a suspended coroutine    *)
(* can be cancelled.                                                       *)
(***************************************************************************)
EXTENDS Integers, Sequences, FiniteSets, TLC

VARIABLES
    session,    \* self.session: 0 is None, n > 0 is the n-th ClientSession created
    pools,      \* every ClientSession created so far: "open" or "closed"
    token,      \* self._token
    api_key,    \* self.api_key
    last,       \* the operation that completed last, its request and its outcome
    closed,     \* history: close() has closed a session of this client
    issued,     \* history: token field of the body that answered the most recent
                \* login() that returned normally
    granted,    \* history: the most recent non-empty string token that a response
                \* below 400 handed to login()
    enc,        \* the CotMessageBuilder call under way: its arguments and, once it
                \* has run, its result
    tasks,      \* the coroutines that share the client: for each task the
                \* operation it is in and the line it is at
    running,    \* the task the event loop is running (0: none, all are suspended
                \* or between calls)
    step,       \* the step the tasks took last
    tool        \* the create_patrol_route call under way: the documents it has to
                \* send, how far it has come, and what the server accepted

vars ==
    <<session, pools, token, api_key, last, closed, issued, granted, enc, tasks,
      running, step, tool>>

(***************************************************************************)
(* Bounds                                                                  *)
(***************************************************************************)
\* ClientSession objects one client may create in a run.
MaxPools == 3

\* Tasks that share one client.
MaxTasks == 2

\* Waypoints of a route.
MaxWaypoints == 3

\* Vertices of a polygon.
MaxVertices == 4

(***************************************************************************)
(* Python / JSON values.  Every value is a record [k, s, f]: its kind, its *)
(* text (strings, numbers, booleans) and its items (the tuple of a list,   *)
(* the key -> value function of a dict).                                   *)
(***************************************************************************)
Val(k, s, f) == [k |-> k, s |-> s, f |-> f]

None == Val("none", "", <<>>)

Str(x) == Val("str", x, <<>>)

Num(x) == Val("num", x, <<>>)

Bool(b) == Val("bool", IF b THEN "True" ELSE "False", <<>>)

List(items) == Val("list", "", items)

Obj(fields) == Val("obj", "", fields)

\* What json.loads yields for a text that is not JSON (json.JSONDecodeError).
Invalid == Val("invalid", "", <<>>)

\* Python truthiness, as used by `if self._token:` and `if target_connections:`.
Truthy(v) ==
    CASE v.k = "none" -> FALSE
      [] v.k = "str"  -> v.s # ""
      [] v.k = "num"  -> v.s # "0"
      [] v.k = "bool" -> v.s = "True"
      [] v.k = "list" -> v.f # <<>>
      [] v.k = "obj"  -> DOMAIN v.f # {}
      [] OTHER        -> FALSE

\* str(v) as an f-string formats it.
Format(v) ==
    CASE v.k = "none" -> "None"
      [] v.k \in {"str", "num", "bool"} -> v.s
      [] v.k = "list" -> "[...]"
      [] OTHER -> "{...}"

(***************************************************************************)
(* Exceptions and results                                                  *)
(***************************************************************************)
Exc(type, site, status, msg) ==
    [type |-> type, site |-> site, status |-> status, msg |-> msg]

NoExc == Exc("none", "", 0, "")

Return(v) == [exc |-> NoExc, ret |-> v]

Raise(e) == [exc |-> e, ret |-> None]

Raised(r) == r.exc.type # "none"

\* v[key]
Subscript(v, key) ==
    IF v.k = "obj"
    THEN IF key \in DOMAIN v.f
         THEN Return(v.f[key])
         ELSE Raise(Exc("KeyError", "", 0, key))
    ELSE Raise(Exc("TypeError", "", 0, v.k))

\* v.get(key, default)
Get(v, key, default) ==
    IF v.k = "obj"
    THEN Return(IF key \in DOMAIN v.f THEN v.f[key] ELSE default)
    ELSE Raise(Exc("AttributeError", "", 0, v.k))

(***************************************************************************)
(* Response bodies.  A body is its text; json.loads is the table that maps *)
(* each text of the model to the value it parses to.                       *)
(***************************************************************************)
TxtGarbage    == "oops"
TxtArray      == "[]"
TxtEmptyObj   == "{}"
TxtMessage    == "{\"message\": \"boom\"}"
TxtToken1     == "{\"token\": \"t1\"}"
TxtToken2     == "{\"token\": \"t2\"}"
TxtTokenNull  == "{\"token\": null}"
TxtTokenEmpty == "{\"token\": \"\"}"
TxtHealthy    == "{\"status\": \"healthy\"}"
TxtDegraded   == "{\"status\": \"degraded\"}"
TxtStatus     == "{\"uptime_seconds\": 5, \"active_connections\": 1, \"messages_processed\": 9, \"messages_per_second\": 2, \"memory_usage_bytes\": 64, \"version\": \"0.1\"}"
TxtStatusPart == "{\"active_connections\": 1, \"messages_processed\": 9, \"messages_per_second\": 2, \"memory_usage_bytes\": 64, \"version\": \"0.1\"}"
TxtSendWarn   == "{\"message_id\": \"m1\", \"sent_to_count\": 1, \"sent_to_connections\": [\"c1\"], \"warnings\": [\"stale\"], \"timestamp\": \"T\"}"
TxtSendWarn2  == "{\"message_id\": \"m1\", \"sent_to_count\": 1, \"sent_to_connections\": [\"c1\"], \"warnings\": [\"stale\", \"filtered\"], \"timestamp\": \"T\"}"
TxtSendClean  == "{\"message_id\": \"m1\", \"sent_to_count\": 1, \"sent_to_connections\": [\"c1\"], \"warnings\": [], \"timestamp\": \"T\"}"
TxtSendNoId   == "{\"sent_to_count\": 1, \"sent_to_connections\": [\"c1\"], \"warnings\": [], \"timestamp\": \"T\"}"
TxtConns      == "{\"connections\": [{\"id\": \"c1\", \"name\": \"n\", \"connection_type\": \"tcp\", \"status\": \"up\", \"address\": \"a:1\", \"messages_sent\": 3}]}"
TxtConnsNoId  == "{\"connections\": [{\"name\": \"n\", \"connection_type\": \"tcp\", \"status\": \"up\", \"address\": \"a:1\"}]}"

\* The bodies any endpoint may answer with: not JSON, JSON that is no object, an
\* object without the expected fields, an error object.
CommonBodies == {TxtGarbage, TxtArray, TxtEmptyObj, TxtMessage}

\* The bodies of each endpoint: the documented one and its near misses.
BodiesOf(op) ==
    CommonBodies \cup
        CASE op = "login"            -> {TxtToken1, TxtToken2, TxtTokenNull, TxtTokenEmpty}
          [] op = "get_status"       -> {TxtStatus, TxtStatusPart}
          [] op = "health_check"     -> {TxtHealthy, TxtDegraded}
          [] op = "get_connections"  -> {TxtConns, TxtConnsNoId}
          [] op = "send_cot_message" -> {TxtSendWarn, TxtSendWarn2, TxtSendClean, TxtSendNoId}
          [] OTHER                   -> {TxtConns}

StatusFields ==
    <<"uptime_seconds", "active_connections", "messages_processed",
      "messages_per_second", "memory_usage_bytes", "version">>

StatusObj(keys) ==
    Obj([key \in keys |->
            CASE key = "uptime_seconds"      -> Num("5")
              [] key = "active_connections"  -> Num("1")
              [] key = "messages_processed"  -> Num("9")
              [] key = "messages_per_second" -> Num("2")
              [] key = "memory_usage_bytes"  -> Num("64")
              [] OTHER                       -> Str("0.1")])

SendObj(keys, warnings) ==
    Obj([key \in keys |->
            CASE key = "message_id"          -> Str("m1")
              [] key = "sent_to_count"       -> Num("1")
              [] key = "sent_to_connections" -> List(<<Str("c1")>>)
              [] key = "warnings"            -> List(warnings)
              [] OTHER                       -> Str("T")])

SendFields ==
    {"message_id", "sent_to_count", "sent_to_connections", "warnings", "timestamp"}

ConnObj(keys) ==
    Obj([key \in keys |->
            CASE key = "id"              -> Str("c1")
              [] key = "name"            -> Str("n")
              [] key = "connection_type" -> Str("tcp")
              [] key = "status"          -> Str("up")
              [] key = "address"         -> Str("a:1")
              [] OTHER                   -> Num("3")])

ConnRequired == <<"id", "name", "connection_type", "status", "address">>

ConnOptional ==
    <<"messages_received", "messages_sent", "bytes_received", "bytes_sent">>

Range(seq) == {seq[i] : i \in DOMAIN seq}

\* json.loads(text)
JsonLoads(text) ==
    CASE text = TxtArray      -> List(<<>>)
      [] text = TxtEmptyObj   -> Obj(<<>>)
      [] text = TxtMessage    -> Obj("message" :> Str("boom"))
      [] text = TxtToken1     -> Obj("token" :> Str("t1"))
      [] text = TxtToken2     -> Obj("token" :> Str("t2"))
      [] text = TxtTokenNull  -> Obj("token" :> None)
      [] text = TxtTokenEmpty -> Obj("token" :> Str(""))
      [] text = TxtHealthy    -> Obj("status" :> Str("healthy"))
      [] text = TxtDegraded   -> Obj("status" :> Str("degraded"))
      [] text = TxtStatus     -> StatusObj(Range(StatusFields))
      [] text = TxtStatusPart -> StatusObj(Range(StatusFields) \ {"uptime_seconds"})
      [] text = TxtSendWarn   -> SendObj(SendFields, <<Str("stale")>>)
      [] text = TxtSendWarn2  -> SendObj(SendFields, <<Str("stale"), Str("filtered")>>)
      [] text = TxtSendClean  -> SendObj(SendFields, <<>>)
      [] text = TxtSendNoId   -> SendObj(SendFields \ {"message_id"}, <<>>)
      [] text = TxtConns      ->
            Obj("connections" :>
                List(<<ConnObj(Range(ConnRequired) \cup {"messages_sent"})>>))
      [] text = TxtConnsNoId  ->
            Obj("connections" :> List(<<ConnObj(Range(ConnRequired) \ {"id"})>>))
      [] OTHER                -> Invalid

(***************************************************************************)
(* The network.  What `self.session.request(...)` and `response.text()`    *)
(* can do: fail before any response (aiohttp.ClientConnectorError for a    *)
(* refused connection or a DNS failure, asyncio.TimeoutError when the      *)
(* ClientTimeout(total=...) of the session expires) or deliver a response. *)
(***************************************************************************)
Statuses == {200, 304, 500}

NetFailures == {"refused", "dns", "timeout"}

Net(op) ==
    [kind : NetFailures, status : {0}, text : {""}]
        \cup [kind : {"response"}, status : Statuses, text : BodiesOf(op)]

\* The failures that aiohttp raises as a subclass of aiohttp.ClientError.
IsAiohttpClientError(net) == net.kind \in {"refused", "dns"}

(***************************************************************************)
(* OmniTAKClient._get_headers and OmniTAKClient._request                   *)
(***************************************************************************)
base_url == "http://localhost:9443"

\* `if response.status >= 400:`
ErrorStatus == 400

\* _get_headers(): the dict of headers, a function from header name to value.
HeadersOf(tok, key) ==
    ("Content-Type" :> "application/json")
        @@ (IF Truthy(tok)
            THEN ("Authorization" :> ("Bearer " \o Format(tok)))
            ELSE IF Truthy(key)
                 THEN ("X-API-Key" :> Format(key))
                 ELSE <<>>)

_get_headers == HeadersOf(token, api_key)

NoReq == [method |-> "", url |-> "", headers |-> <<>>, json |-> None]

\* The arguments of the one `self.session.request(...)` call of _request.
RequestOf(method, endpoint, data) ==
    [method |-> method, url |-> base_url \o endpoint,
     headers |-> _get_headers, json |-> data]

\* The `if response.status >= 400:` branch: the message is decoded from the body;
\* only json.JSONDecodeError is handled there.
ErrorBranch(net) ==
    LET error_data == JsonLoads(net.text)
        error_msg  == Get(error_data, "message", Str(net.text))
    IN  IF error_data.k = "invalid"
        THEN Raise(Exc("OmniTAKError", "API error", net.status, net.text))
        ELSE IF Raised(error_msg)
             THEN error_msg
             ELSE Raise(Exc("OmniTAKError", "API error", net.status,
                            Format(error_msg.ret)))

\* _request from `try:` to its return or raise, for the outcome `net` of the
\* HTTP exchange.  `except aiohttp.ClientError` and `except json.JSONDecodeError`
\* are the only handlers.
_request(net) ==
    IF net.kind = "response"
    THEN IF net.status >= ErrorStatus
         THEN ErrorBranch(net)
         ELSE LET v == JsonLoads(net.text)
              IN  IF v.k = "invalid"
                  THEN Raise(Exc("OmniTAKError", "Invalid JSON response", 0, ""))
                  ELSE Return(v)
    ELSE IF IsAiohttpClientError(net)
         THEN Raise(Exc("OmniTAKError", "HTTP request failed", 0, net.kind))
         ELSE Raise(Exc("TimeoutError", "", 0, ""))

\* The number of `self.session.request(...)` calls one _request makes.
RequestsPerCall == 1

(***************************************************************************)
(* The public coroutines, from the result r of their _request call.        *)
(***************************************************************************)
\* The first raise among the subscripts r[key], key taken in order; else NoExc.
RECURSIVE FirstRaise(_, _)
FirstRaise(v, keys) ==
    IF keys = <<>>
    THEN NoExc
    ELSE IF Raised(Subscript(v, Head(keys)))
         THEN Subscript(v, Head(keys)).exc
         ELSE FirstRaise(v, Tail(keys))

\* login: `self._token = response["token"]; return self._token`
login_result(r) ==
    IF Raised(r) THEN r ELSE Subscript(r.ret, "token")

\* A login that assigns self._token before it knows the outcome.
login_token_unconditional(res, old) == res.ret

\* The value of self._token after login, from its value before.
login_token(res, old) ==
    IF Raised(res) THEN old ELSE res.ret

\* get_status: SystemStatus(uptime_seconds=data["uptime_seconds"], ...)
get_status_result(r) ==
    IF Raised(r)
    THEN r
    ELSE IF FirstRaise(r.ret, StatusFields) # NoExc
         THEN Raise(FirstRaise(r.ret, StatusFields))
         ELSE Return(Obj([key \in Range(StatusFields) |-> r.ret.f[key]]))

\* health_check: `except OmniTAKError: return False`
health_check_result(r) ==
    IF Raised(r)
    THEN IF r.exc.type = "OmniTAKError" THEN Return(Bool(FALSE)) ELSE r
    ELSE LET st == Get(r.ret, "status", None)
         IN  IF Raised(st) THEN st ELSE Return(Bool(st.ret = Str("healthy")))

\* ConnectionInfo(id=conn["id"], ..., messages_received=conn.get(..., 0), ...)
ConnectionInfoOf(conn) ==
    IF FirstRaise(conn, ConnRequired) # NoExc
    THEN Raise(FirstRaise(conn, ConnRequired))
    ELSE Return(Obj([key \in Range(ConnRequired) \cup Range(ConnOptional) |->
                        IF key \in DOMAIN conn.f THEN conn.f[key] ELSE Num("0")]))

\* get_connections: one ConnectionInfo per entry of data.get("connections", []),
\* in the order of the response.
get_connections_result(r) ==
    IF Raised(r)
    THEN r
    ELSE LET got == Get(r.ret, "connections", List(<<>>))
         IN  IF Raised(got)
             THEN got
             ELSE LET items == got.ret.f
                      bad   == {i \in DOMAIN items : Raised(ConnectionInfoOf(items[i]))}
                  IN  IF bad # {}
                      THEN ConnectionInfoOf(items[CHOOSE i \in bad : \A j \in bad : i <= j])
                      ELSE Return(List([i \in DOMAIN items |->
                                           ConnectionInfoOf(items[i]).ret]))

\* A send_cot_message that raises when the response carries warnings.
send_cot_message_strict(r) ==
    IF Raised(r)
    THEN r
    ELSE IF Raised(Get(r.ret, "warnings", None))
         THEN Get(r.ret, "warnings", None)
         ELSE IF Truthy(Get(r.ret, "warnings", None).ret)
              THEN Raise(Exc("OmniTAKError", "warnings", 0, ""))
              ELSE r

\* send_cot_message: response.get("warnings"), then the log line that reads
\* response['message_id'] and response['sent_to_count'], then `return response`.
send_cot_message_result(r) ==
    IF Raised(r)
    THEN r
    ELSE IF Raised(Get(r.ret, "warnings", None))
         THEN Get(r.ret, "warnings", None)
         ELSE IF FirstRaise(r.ret, <<"message_id", "sent_to_count">>) # NoExc
              THEN Raise(FirstRaise(r.ret, <<"message_id", "sent_to_count">>))
              ELSE r

\* The request body of send_cot_message.
send_cot_message_data(cot_xml, target_connections, apply_filters, priority) ==
    Obj(("message" :> Str(cot_xml))
        @@ ("apply_filters" :> Bool(apply_filters))
        @@ ("priority" :> Num(priority))
        @@ (IF Truthy(target_connections)
            THEN ("target_connections" :> target_connections)
            ELSE <<>>))

\* create_connection and delete_connection return the response as it is.
passthrough_result(r) == r

(***************************************************************************)
(* The client object                                                       *)
(***************************************************************************)
NoNet == [kind |-> "none", status |-> 0, text |-> ""]

NoLogin == Val("nologin", "", <<>>)

\* The record of an operation that issued no request.
Local(op) ==
    [op |-> op, reqs |-> 0, req |-> NoReq, net |-> NoNet, exc |-> NoExc,
     ret |-> None, tokBefore |-> token, pool |-> 0]

\* __init__: no session, no token; api_key is the constructor's argument.
ClientInit ==
    /\ session = 0
    /\ pools = <<>>
    /\ token = None
    /\ api_key \in {None, Str("k1")}
    /\ last = [op |-> "init", reqs |-> 0, req |-> NoReq, net |-> NoNet,
               exc |-> NoExc, ret |-> None, tokBefore |-> None, pool |-> 0]
    /\ closed = FALSE
    /\ issued = NoLogin
    /\ granted = NoLogin

\* No call of the CotMessageBuilder.
NoCall ==
    [op |-> "none", shape |-> <<>>, name |-> "", color |-> "", filled |-> FALSE,
     uid |-> None, done |-> FALSE, exc |-> NoExc, docs |-> <<>>]

Tasks == 1..MaxTasks

\* A task that is in no call of the client.
IdleTask ==
    [pc |-> "idle", op |-> "", seen1 |-> None, seen2 |-> None, headers |-> <<>>,
     pool |-> 0, tok0 |-> None, key0 |-> None, sess0 |-> 0, alone |-> TRUE]

NoStep == [op |-> "init", task |-> 0, call |-> IdleTask, exc |-> NoExc]

\* No call of create_patrol_route.
NoTool ==
    [pc |-> "none", waypoints |-> <<>>, route_name |-> "", msgs |-> <<>>,
     sent |-> <<>>, accepted |-> <<>>, exc |-> NoExc, result |-> ""]

\* No encoder call, no task and no tool.
Elsewhere ==
    /\ enc = NoCall
    /\ tasks = [t \in Tasks |-> IdleTask]
    /\ running = 0
    /\ step = NoStep
    /\ tool = NoTool

Init == ClientInit /\ Elsewhere

\* connect(): `if self.session is None: self.session = aiohttp.ClientSession(...)`
Connected ==
    /\ session = 0 => Len(pools) < MaxPools
    /\ session' = IF session = 0 THEN Len(pools) + 1 ELSE session
    /\ pools' = IF session = 0 THEN Append(pools, "open") ELSE pools

\* close(): `if self.session: await self.session.close(); self.session = None`
Closing ==
    /\ pools' = IF session # 0 THEN [pools EXCEPT ![session] = "closed"] ELSE pools
    /\ session' = 0
    /\ closed' = (closed \/ session # 0)

connect ==
    /\ Connected
    /\ last' = Local("connect")
    /\ UNCHANGED <<token, api_key, closed, issued, granted, enc, tool, tasks, running, step>>

close ==
    /\ Closing
    /\ last' = Local("close")
    /\ UNCHANGED <<token, api_key, issued, granted, enc, tool, tasks, running, step>>

\* __aenter__: `await self.connect()`
aenter ==
    /\ Connected
    /\ last' = Local("aenter")
    /\ UNCHANGED <<token, api_key, closed, issued, granted, enc, tool, tasks, running, step>>

\* __aexit__: `await self.close()`
aexit ==
    /\ Closing
    /\ last' = Local("aexit")
    /\ UNCHANGED <<token, api_key, issued, granted, enc, tool, tasks, running, step>>

\* A coroutine that awaits _request once: the lazy connect of _request
\* (`if not self.session: await self.connect()`), the request with the headers
\* of the moment, and the coroutine's result `res` for the outcome `net`.
Called(op, method, endpoint, data, net, res) ==
    /\ Connected
    /\ last' = [op |-> op, reqs |-> RequestsPerCall,
                req |-> RequestOf(method, endpoint, data), net |-> net,
                exc |-> res.exc, ret |-> res.ret, tokBefore |-> token,
                pool |-> session']

\* The same, called by the owner of the client.
Call(op, method, endpoint, data, net, res) ==
    /\ Called(op, method, endpoint, data, net, res)
    /\ UNCHANGED <<api_key, closed, enc, tool, tasks, running, step>>

\* A body that carries a token a client can use: an object whose token field is a
\* non-empty string.
UsableToken(v) ==
    /\ v.k = "obj"
    /\ "token" \in DOMAIN v.f
    /\ v.f["token"].k = "str"
    /\ v.f["token"].s # ""

login(username, password) ==
    \E net \in Net("login") :
        LET res == login_result(_request(net))
        IN  /\ Call("login", "POST", "/api/v1/auth/login",
                    Obj(("username" :> Str(username)) @@ ("password" :> Str(password))),
                    net, res)
            /\ token' = login_token(res, token)
            /\ issued' = IF Raised(res)
                         THEN issued
                         ELSE JsonLoads(net.text).f["token"]
            /\ granted' = IF ~Raised(res) /\ UsableToken(JsonLoads(net.text))
                          THEN JsonLoads(net.text).f["token"]
                          ELSE granted

get_status ==
    \E net \in Net("get_status") :
        /\ Call("get_status", "GET", "/api/v1/status", None, net,
                get_status_result(_request(net)))
        /\ UNCHANGED <<token, issued, granted>>

health_check ==
    \E net \in Net("health_check") :
        /\ Call("health_check", "GET", "/api/v1/health", None, net,
                health_check_result(_request(net)))
        /\ UNCHANGED <<token, issued, granted>>

get_connections ==
    \E net \in Net("get_connections") :
        /\ Call("get_connections", "GET", "/api/v1/connections", None, net,
                get_connections_result(_request(net)))
        /\ UNCHANGED <<token, issued, granted>>

send_cot_message(cot_xml, target_connections, apply_filters, priority) ==
    \E net \in Net("send_cot_message") :
        /\ Call("send_cot_message", "POST", "/api/v1/cot/send",
                send_cot_message_data(cot_xml, target_connections, apply_filters,
                                      priority),
                net, send_cot_message_result(_request(net)))
        /\ UNCHANGED <<token, issued, granted>>

create_connection(name, address, protocol) ==
    \E net \in Net("create_connection") :
        /\ Call("create_connection", "POST", "/api/v1/connections",
                Obj(("name" :> Str(name)) @@ ("address" :> Str(address))
                    @@ ("protocol" :> Str(protocol))),
                net, passthrough_result(_request(net)))
        /\ UNCHANGED <<token, issued, granted>>

delete_connection(connection_id) ==
    \E net \in Net("delete_connection") :
        /\ Call("delete_connection", "DELETE",
                "/api/v1/connections/" \o connection_id, None, net,
                passthrough_result(_request(net)))
        /\ UNCHANGED <<token, issued, granted>>

\* Arguments the caller passes.
Targets == {None, List(<<>>), List(<<Str("c1")>>)}

Protocols == {"tcp", "carrier-pigeon"}

Next ==
    \/ connect
    \/ close
    \/ aenter
    \/ aexit
    \/ login("admin", "secret")
    \/ get_status
    \/ health_check
    \/ get_connections
    \/ \E t \in Targets : send_cot_message("<event/>", t, TRUE, "5")
    \/ \E p \in Protocols : create_connection("tak-1", "10.0.0.1:8087", p)
    \/ delete_connection("c1")

Spec == Init /\ [][Next]_vars

\* The operations that go through _request.
RequestOps ==
    {"login", "get_status", "health_check", "get_connections",
     "send_cot_message", "create_connection", "delete_connection"}

TypeOK ==
    /\ session \in 0..Len(pools)
    /\ Len(pools) <= MaxPools
    /\ \A i \in DOMAIN pools : pools[i] \in {"open", "closed"}
    /\ closed \in BOOLEAN
    /\ last.reqs \in 0..1
    /\ last.op \in RequestOps \cup {"init", "connect", "close", "aenter", "aexit"}

(***************************************************************************)
(* The CoT encoder: claude_tools/tak_geometry.py, class CotMessageBuilder. *)
(* A document is its text, built as the f-string templates build it.       *)
(***************************************************************************)
\* A Python float with an integral value, and an int.
PyFloat(n) == [n |-> n, t |-> "float"]

PyInt(n) == [n |-> n, t |-> "int"]

\* A number as an f-string formats it: 33.0 as "33.0", 0 as "0".
FormatNum(x) == IF x.t = "float" THEN ToString(x.n) \o ".0" ELSE ToString(x.n)

\* @dataclass LatLon: three numbers, no validation.
LatLon(lat, lon, hae) == [lat |-> lat, lon |-> lon, hae |-> hae]

\* A naive datetime of 2025: month, day, hour and microsecond (minutes and
\* seconds are zero).
DateTime(mo, d, h, us) == [mo |-> mo, d |-> d, h |-> h, us |-> us]

\* datetime.utcnow(): an evening with microseconds, and the evening of the last
\* day of a month, on the second.
Nows == {DateTime(1, 14, 18, 4170), DateTime(1, 31, 18, 0)}

\* The days of a month of 2025.
DaysIn(mo) ==
    IF mo = 2 THEN 28 ELSE IF mo \in {4, 6, 9, 11} THEN 30 ELSE 31

\* now + timedelta(hours=k), for k of at most a few days: the calendar carries
\* into the next day and the next month.
PlusHours(t, k) ==
    LET day == t.d + ((t.h + k) \div 24)
    IN  IF day > DaysIn(t.mo)
        THEN DateTime(t.mo + 1, day - DaysIn(t.mo), (t.h + k) % 24, t.us)
        ELSE DateTime(t.mo, day, (t.h + k) % 24, t.us)

Pad2(n) == IF n < 10 THEN "0" \o ToString(n) ELSE ToString(n)

\* The six digits of the microseconds.
Pad6(n) == SubSeq("000000", 1, 6 - Len(ToString(n))) \o ToString(n)

\* datetime.isoformat(): YYYY-MM-DDTHH:MM:SS, followed by .ffffff when the
\* microsecond is not zero.
isoformat(t) ==
    "2025-" \o Pad2(t.mo) \o "-" \o Pad2(t.d) \o "T" \o Pad2(t.h) \o ":00:00"
    \o (IF t.us = 0 THEN "" ELSE "." \o Pad6(t.us))

\* `stale = now + timedelta(hours=24)` of circles, polygons and routes.
ShapeStaleHours == 24

\* Markers that live as long as shapes.
MarkerStaleAsShapes == ShapeStaleHours

\* `stale = now + timedelta(hours=12)` of markers.
MarkerStaleHours == 12

\* str(uuid.uuid4())
Uuids == {"0b9c", "7e21"}

\* A colour table without blue.
colors_get_no_blue(color, default) ==
    CASE color = "red"    -> "-65536"
      [] color = "green"  -> "-16711936"
      [] color = "yellow" -> "-256"
      [] OTHER            -> default

\* `colors.get(color, default)`
colors_get(color, default) ==
    CASE color = "red"    -> "-65536"
      [] color = "green"  -> "-16711936"
      [] color = "blue"   -> "-16776961"
      [] color = "yellow" -> "-256"
      [] OTHER            -> default

\* sep.join(items)
RECURSIVE Join(_, _)
Join(sep, items) ==
    IF items = <<>>
    THEN ""
    ELSE IF Len(items) = 1
         THEN items[1]
         ELSE items[1] \o sep \o Join(sep, Tail(items))

\* The lines every template starts with: the XML declaration, the event tag, the
\* point, the three times and the opening of detail.
EventHead(uid, type, point, ce, now, stale) ==
    "<?xml version=\"1.0\" encoding=\"UTF-8\"?>\n"
    \o "<event version=\"2.0\" uid=\"" \o uid \o "\" type=\"" \o type
    \o "\" how=\"h-g-i-g-o\">\n"
    \o "  <point lat=\"" \o FormatNum(point.lat) \o "\" lon=\"" \o FormatNum(point.lon)
    \o "\" hae=\"" \o FormatNum(point.hae) \o "\" ce=\"" \o ce \o "\" le=\"" \o ce
    \o "\"/>\n"
    \o "  <time>" \o isoformat(now) \o "Z</time>\n"
    \o "  <start>" \o isoformat(now) \o "Z</start>\n"
    \o "  <stale>" \o isoformat(stale) \o "Z</stale>\n"
    \o "  <detail>\n"

\* `<contact callsign="{name}"/>`: the name as it is, nothing escaped.
ContactLine(name) == "    <contact callsign=\"" \o name \o "\"/>\n"

\* `uid = uid or f"<kind>-{uuid.uuid4()}"`
UidOr(uid, kind, uuid) == IF Truthy(uid) THEN uid.s ELSE kind \o "-" \o uuid

\* A route whose waypoint uids count from one.
wp_uid_from_one(uid, i) == uid \o "-wp-" \o ToString(i)

\* `wp_uid = f"{uid}-wp-{idx}"`, idx from enumerate (zero-based); waypoint i of
\* the sequence has idx = i - 1.
wp_uid(uid, i) == uid \o "-wp-" \o ToString(i - 1)

\* The entry appended to waypoint_links for waypoint i.
waypoint_link(uid, i) ==
    "<link relation=\"c\" type=\"b-m-p-s-p-loc\" uid=\"" \o wp_uid(uid, i) \o "\"/>"

\* wp_xml of waypoint i = (position, name).
wp_xml(uid, i, position, name, now, stale) ==
    EventHead(wp_uid(uid, i), "b-m-p-s-p-loc", position, "10", now, stale)
    \o ContactLine(name)
    \o "    <labels_on value=\"true\"/>\n"
    \o "  </detail>\n"
    \o "</event>"

route_xml(uid, first, route_name, links_xml, color_value, now, stale) ==
    EventHead(uid, "b-m-p-s-p-loc", first, "9999999", now, stale)
    \o ContactLine(route_name)
    \o "    " \o links_xml \o "\n"
    \o "    <labels_on value=\"true\"/>\n"
    \o "    <color value=\"" \o color_value \o "\"/>\n"
    \o "  </detail>\n"
    \o "</event>"

IndexError == Exc("IndexError", "", 0, "list index out of range")

\* A route that returns the waypoint documents first.
route_messages_reversed(route_doc, waypoint_messages) ==
    waypoint_messages \o <<route_doc>>

\* The documents in the order create_route_event returns them:
\* `return [route_xml] + waypoint_messages`.
route_messages(route_doc, waypoint_messages) == <<route_doc>> \o waypoint_messages

\* create_route_event(route, route_name, color, uid): no check of the number of
\* waypoints; `route.waypoints[0][0]` raises IndexError for an empty route.
create_route_event_result(waypoints, route_name, color, uid_arg, uuid, now) ==
    LET uid   == UidOr(uid_arg, "route", uuid)
        stale == PlusHours(now, ShapeStaleHours)
        color_value == colors_get(color, "-256")
        waypoint_links == [i \in DOMAIN waypoints |-> waypoint_link(uid, i)]
        waypoint_messages ==
            [i \in DOMAIN waypoints |->
                wp_xml(uid, i, waypoints[i][1], waypoints[i][2], now, stale)]
    IN  IF waypoints = <<>>
        THEN [exc |-> IndexError, docs |-> <<>>]
        ELSE [exc |-> NoExc,
              docs |-> route_messages(
                          route_xml(uid, waypoints[1][1], route_name,
                                    Join("\n    ", waypoint_links), color_value,
                                    now, stale),
                          waypoint_messages)]

\* The element of vertices_xml for one vertex.
vertex_xml(v) ==
    "<vertex lat=\"" \o FormatNum(v.lat) \o "\" lon=\"" \o FormatNum(v.lon)
    \o "\" hae=\"" \o FormatNum(v.hae) \o "\"/>"

\* A polygon that repeats its first vertex to close the ring.
polyline_vertices_closed(vertices) ==
    IF vertices = <<>> THEN vertices ELSE Append(vertices, vertices[1])

\* The vertices the polyline lists: `for v in polygon.vertices`.
polyline_vertices(vertices) == vertices

polygon_xml(uid, first, callsign, vertices_xml, color_value, fill_value, now, stale) ==
    EventHead(uid, "u-d-f", first, "9999999", now, stale)
    \o ContactLine(callsign)
    \o "    <link relation=\"p-p\"/>\n"
    \o "    <shape>\n"
    \o "      <polyline closed=\"true\">\n"
    \o "        " \o vertices_xml \o "\n"
    \o "      </polyline>\n"
    \o "    </shape>\n"
    \o "    <color value=\"" \o color_value \o "\"/>\n"
    \o "    <fillColor value=\"" \o fill_value \o "\"/>\n"
    \o "    <strokeColor value=\"" \o color_value \o "\"/>\n"
    \o "    <strokeWeight value=\"2.0\"/>\n"
    \o "    <labels_on value=\"true\"/>\n"
    \o "  </detail>\n"
    \o "</event>"

\* create_polygon_event(polygon, callsign, color, filled, uid): no check of the
\* number of vertices; `polygon.vertices[0]` raises IndexError for an empty one.
create_polygon_event_result(vertices, callsign, color, filled, uid_arg, uuid, now) ==
    LET uid   == UidOr(uid_arg, "polygon", uuid)
        stale == PlusHours(now, ShapeStaleHours)
        color_value == colors_get(color, "-16711936")
        fill_value  == IF filled THEN "1342177280" ELSE "0"
        listed == polyline_vertices(vertices)
        vertices_xml ==
            Join("\n        ", [i \in DOMAIN listed |-> vertex_xml(listed[i])])
    IN  IF vertices = <<>>
        THEN [exc |-> IndexError, docs |-> <<>>]
        ELSE [exc |-> NoExc,
              docs |-> <<polygon_xml(uid, vertices[1], callsign, vertices_xml,
                                     color_value, fill_value, now, stale)>>]

circle_xml(uid, center, radius_meters, callsign, color_value, now, stale) ==
    EventHead(uid, "u-d-f", center, "9999999", now, stale)
    \o ContactLine(callsign)
    \o "    <link uid=\"" \o uid \o "\" type=\"a-f-G-E-V-C\" relation=\"p-p\"/>\n"
    \o "    <shape>\n"
    \o "      <ellipse major=\"" \o FormatNum(radius_meters) \o "\" minor=\""
    \o FormatNum(radius_meters) \o "\" angle=\"0\"/>\n"
    \o "    </shape>\n"
    \o "    <color value=\"" \o color_value \o "\"/>\n"
    \o "    <strokeColor value=\"" \o color_value \o "\"/>\n"
    \o "    <strokeWeight value=\"2.0\"/>\n"
    \o "    <labels_on value=\"true\"/>\n"
    \o "  </detail>\n"
    \o "</event>"

\* create_circle_event(circle, callsign, color, uid): nothing is checked, the
\* method always returns a document.
create_circle_event_result(center, radius_meters, callsign, color, uid_arg, uuid, now) ==
    LET uid   == UidOr(uid_arg, "circle", uuid)
        stale == PlusHours(now, ShapeStaleHours)
        color_value == colors_get(color, "-65536")
    IN  [exc |-> NoExc,
         docs |-> <<circle_xml(uid, center, radius_meters, callsign, color_value,
                               now, stale)>>]

\* A type table whose default is the unknown affiliation.
types_get_default_unknown(marker_type) ==
    CASE marker_type = "friendly"  -> "a-f-G-E-S"
      [] marker_type = "hostile"   -> "a-h-G-E-S"
      [] marker_type = "neutral"   -> "a-n-G-E-S"
      [] marker_type = "unknown"   -> "a-u-G-E-S"
      [] marker_type = "emergency" -> "b-a-o-tl"
      [] marker_type = "medical"   -> "b-m-p-c"
      [] OTHER                     -> "a-u-G-E-S"

\* `types.get(marker_type, "a-f-G-E-S")`
types_get(marker_type) ==
    CASE marker_type = "friendly"  -> "a-f-G-E-S"
      [] marker_type = "hostile"   -> "a-h-G-E-S"
      [] marker_type = "neutral"   -> "a-n-G-E-S"
      [] marker_type = "unknown"   -> "a-u-G-E-S"
      [] marker_type = "emergency" -> "b-a-o-tl"
      [] marker_type = "medical"   -> "b-m-p-c"
      [] OTHER                     -> "a-f-G-E-S"

\* `remarks_xml = f"<remarks>{remarks}</remarks>" if remarks else ""`: the test is
\* the truth value of remarks, the text is interpolated as it is.
remarks_xml(remarks) ==
    IF Truthy(remarks) THEN "<remarks>" \o remarks.s \o "</remarks>" ELSE ""

marker_xml(uid, event_type, position, callsign, remarks, now, stale) ==
    EventHead(uid, event_type, position, "10", now, stale)
    \o ContactLine(callsign)
    \o "    " \o remarks_xml(remarks) \o "\n"
    \o "    <labels_on value=\"true\"/>\n"
    \o "  </detail>\n"
    \o "</event>"

\* create_marker_event(position, callsign, marker_type, remarks, uid): nothing
\* is checked, the method always returns a document.
create_marker_event_result(position, callsign, marker_type, remarks, uid_arg, uuid, now) ==
    LET uid   == UidOr(uid_arg, "marker", uuid)
        stale == PlusHours(now, MarkerStaleHours)
    IN  [exc |-> NoExc,
         docs |-> <<marker_xml(uid, types_get(marker_type), position, callsign,
                               remarks, now, stale)>>]

(***************************************************************************)
(* EncSpec: one call of the encoder.  Its arguments are drawn in the        *)
(* initial state; the action of the method runs it with the clock and the  *)
(* uuid of the moment.                                                     *)
(* ProcSpec: a process that calls the encoder several times, each time     *)
(* with one of a few shapes, in any colour and with any uid argument.      *)
(***************************************************************************)
\* The calls of the encoder one process makes.
MaxCalls == 2

\* Positions, as tak_tools.py builds them: LatLon(lat, lon, 0).
Positions ==
    {LatLon(PyFloat(33), PyFloat(-117), PyInt(0)),
     LatLon(PyFloat(34), PyFloat(-118), PyInt(0)),
     LatLon(PyFloat(-35), PyFloat(119), PyFloat(12))}

\* Positions off the map: a latitude above 90, a longitude above 180.
OffMap ==
    {LatLon(PyFloat(91), PyFloat(-117), PyInt(0)),
     LatLon(PyFloat(33), PyFloat(181), PyInt(0))}

\* Display names: free text.
Names == {"Alpha", "Gate \"B\""}

\* The stops of a route: (LatLon, name) pairs.
Stops ==
    {<<LatLon(PyFloat(33), PyFloat(-117), PyInt(0)), "Alpha">>,
     <<LatLon(PyFloat(34), PyFloat(-118), PyInt(0)), "Gate \"B\"">>,
     <<LatLon(PyFloat(-35), PyFloat(119), PyFloat(12)), "Charlie">>}

SeqsUpTo(S, n) == UNION {[1..k -> S] : k \in 0..n}

\* Colour names: the four of the table and one that is not in it.
ColorNames == {"red", "green", "blue", "yellow", "mauve"}

\* The colours of the routes drawn: one of the table, one not.
FewColors == {"red", "mauve"}

\* circle.radius_meters: tak_tools.py passes radius_km * 1000.
Radii == {PyFloat(5000), PyInt(250)}

\* marker_type: the six documented kinds and one that is not documented.
MarkerKinds ==
    {"friendly", "hostile", "neutral", "unknown", "emergency", "medical",
     "checkpoint"}

\* remarks: None (the default), a text, the empty text.
RemarksArgs == {None, Str("Check at dusk"), Str("")}

\* The uid argument: None (the default) or a caller's identifier.
UidArgs == {None, Str("op-7")}

\* The arguments of the call of EncSpec.
EncCalls ==
    [op : {"create_route_event"}, shape : SeqsUpTo(Stops, MaxWaypoints),
     name : Names, color : FewColors, filled : {FALSE}, radius : {PyInt(0)},
     kind : {""}, remarks : {None}, uid : UidArgs]
    \cup
    [op : {"create_polygon_event"}, shape : SeqsUpTo(Positions, MaxVertices),
     name : {"Alpha"}, color : {"mauve"}, filled : BOOLEAN, radius : {PyInt(0)},
     kind : {""}, remarks : {None}, uid : UidArgs]
    \cup
    [op : {"create_circle_event"}, shape : Positions \cup OffMap,
     name : Names, color : ColorNames, filled : {FALSE}, radius : Radii,
     kind : {""}, remarks : {None}, uid : UidArgs]
    \cup
    [op : {"create_marker_event"}, shape : Positions \cup OffMap,
     name : Names, color : {""}, filled : {FALSE}, radius : {PyInt(0)},
     kind : MarkerKinds, remarks : RemarksArgs, uid : UidArgs]

\* The uid argument of a call of the process: also an identifier that has the
\* form of a waypoint's, and the empty string.
ProcUidArgs == UidArgs \cup {Str("op-7-wp-0"), Str("")}

\* One shape of each kind, the polygon and the route with a position off the
\* map.
ProcShapes ==
    [op : {"create_route_event"},
     shape : {<<<<LatLon(PyFloat(33), PyFloat(-117), PyInt(0)), "Alpha">>,
                <<LatLon(PyFloat(33), PyFloat(181), PyInt(0)), "Charlie">>>>},
     filled : {FALSE}, radius : {PyInt(0)}, kind : {""}]
    \cup
    [op : {"create_polygon_event"},
     shape : {<<LatLon(PyFloat(33), PyFloat(-117), PyInt(0)),
                LatLon(PyFloat(34), PyFloat(-118), PyInt(0)),
                LatLon(PyFloat(91), PyFloat(-117), PyInt(0))>>},
     filled : BOOLEAN, radius : {PyInt(0)}, kind : {""}]
    \cup
    [op : {"create_circle_event"},
     shape : {LatLon(PyFloat(33), PyFloat(-117), PyInt(0))},
     filled : {FALSE}, radius : {PyFloat(5000)}, kind : {""}]
    \cup
    [op : {"create_marker_event"},
     shape : {LatLon(PyFloat(33), PyFloat(-117), PyInt(0))},
     filled : {FALSE}, radius : {PyInt(0)}, kind : {"friendly"}]

\* The arguments of a call of the process: every shape in every colour with
\* the default uid, and in red with every uid argument.
ProcCalls ==
    {sh @@ [name |-> "Alpha", remarks |-> None, color |-> c, uid |-> None] :
        sh \in ProcShapes, c \in ColorNames}
    \cup
    {sh @@ [name |-> "Alpha", remarks |-> None, color |-> "red", uid |-> u] :
        sh \in ProcShapes, u \in ProcUidArgs}

\* The first instant of 2025: the clock field of a call that has not run.
Epoch == DateTime(1, 1, 0, 0)

\* What the process has done before a call: the uids of the documents the
\* encoder returned, the uuids uuid4 generated, the identifiers the caller
\* supplied, and the number of the call.
NoHistory == [made |-> {}, drawn |-> {}, given |-> {}, calls |-> 1]

\* A call with arguments c that has not run yet, after history hist.
Begin(c, hist) ==
    c @@ [done |-> FALSE, exc |-> NoExc, docs |-> <<>>, now |-> Epoch, uuid |-> ""]
      @@ hist

EncInit ==
    /\ ClientInit
    /\ api_key = None
    /\ enc \in {Begin(c, NoHistory) : c \in EncCalls}
    /\ tasks = [t \in Tasks |-> IdleTask]
    /\ running = 0
    /\ step = NoStep
    /\ tool = NoTool

ProcInit ==
    /\ ClientInit
    /\ api_key = None
    /\ enc \in {Begin(c, NoHistory) : c \in ProcCalls}
    /\ tasks = [t \in Tasks |-> IdleTask]
    /\ running = 0
    /\ step = NoStep
    /\ tool = NoTool

\* uuid.uuid4() is called only when the caller gave no uid (or a falsy one); it
\* returns a value it has not returned before in the process ("" stands for
\* no call of uuid4).
UuidsFor(uid_arg, drawn) == IF Truthy(uid_arg) THEN {""} ELSE Uuids \ drawn

\* The call has run: its result, the clock it read and the uuid it drew.
Finished(res, uuid, now) ==
    [enc EXCEPT !.done = TRUE, !.exc = res.exc, !.docs = res.docs, !.now = now,
                !.uuid = uuid]

create_route_event ==
    /\ enc.op = "create_route_event"
    /\ ~enc.done
    /\ \E uuid \in UuidsFor(enc.uid, enc.drawn), now \in Nows :
          enc' = Finished(create_route_event_result(enc.shape, enc.name, enc.color,
                                                    enc.uid, uuid, now),
                          uuid, now)
    /\ UNCHANGED <<session, pools, token, api_key, last, closed, issued, granted,
                   tasks, running, step, tool>>

create_polygon_event ==
    /\ enc.op = "create_polygon_event"
    /\ ~enc.done
    /\ \E uuid \in UuidsFor(enc.uid, enc.drawn), now \in Nows :
          enc' = Finished(create_polygon_event_result(enc.shape, enc.name,
                                                      enc.color, enc.filled,
                                                      enc.uid, uuid, now),
                          uuid, now)
    /\ UNCHANGED <<session, pools, token, api_key, last, closed, issued, granted,
                   tasks, running, step, tool>>

create_circle_event ==
    /\ enc.op = "create_circle_event"
    /\ ~enc.done
    /\ \E uuid \in UuidsFor(enc.uid, enc.drawn), now \in Nows :
          enc' = Finished(create_circle_event_result(enc.shape, enc.radius,
                                                     enc.name, enc.color,
                                                     enc.uid, uuid, now),
                          uuid, now)
    /\ UNCHANGED <<session, pools, token, api_key, last, closed, issued, granted,
                   tasks, running, step, tool>>

create_marker_event ==
    /\ enc.op = "create_marker_event"
    /\ ~enc.done
    /\ \E uuid \in UuidsFor(enc.uid, enc.drawn), now \in Nows :
          enc' = Finished(create_marker_event_result(enc.shape, enc.name, enc.kind,
                                                     enc.remarks, enc.uid, uuid,
                                                     now),
                          uuid, now)
    /\ UNCHANGED <<session, pools, token, api_key, last, closed, issued, granted,
                   tasks, running, step, tool>>

\* The prefix of a generated uid: f"circle-...", f"polygon-...", f"route-...",
\* f"marker-...".
KindOf(op) ==
    CASE op = "create_circle_event"  -> "circle"
      [] op = "create_polygon_event" -> "polygon"
      [] op = "create_route_event"   -> "route"
      [] op = "create_marker_event"  -> "marker"

\* The uids the call that has run gave to its documents: its uid and, for a
\* route, the uid of every waypoint.
CallUids ==
    LET uid == UidOr(enc.uid, KindOf(enc.op), enc.uuid)
    IN  IF enc.docs = <<>>
        THEN {}
        ELSE {uid} \cup {wp_uid(uid, i) : i \in 1..(Len(enc.docs) - 1)}

\* The process calls the encoder again: the uids, the uuid and the caller's
\* identifier of the call that has run go to the history.
next_call ==
    /\ enc.done
    /\ enc.calls < MaxCalls
    /\ \E c \in ProcCalls :
          enc' = Begin(c, [made  |-> enc.made \cup CallUids,
                           drawn |-> enc.drawn \cup ({enc.uuid} \ {""}),
                           given |-> enc.given
                                       \cup (IF enc.uid = None THEN {} ELSE {enc.uid.s}),
                           calls |-> enc.calls + 1])
    /\ UNCHANGED <<session, pools, token, api_key, last, closed, issued, granted,
                   tasks, running, step, tool>>

EncNext ==
    \/ create_route_event
    \/ create_polygon_event
    \/ create_circle_event
    \/ create_marker_event

EncSpec == EncInit /\ [][EncNext]_vars

ProcNext ==
    \/ create_route_event
    \/ create_polygon_event
    \/ create_circle_event
    \/ create_marker_event
    \/ next_call

ProcSpec == ProcInit /\ [][ProcNext]_vars

(***************************************************************************)
(* ConcSpec: the client shared by the tasks of one event loop.  A          *)
(* coroutine runs without interruption from one suspension point to the    *)
(* next.  _request suspends in `async with self.session.request(...)` and  *)
(* `await response.text()` (one suspension here: nothing of the client is  *)
(* read or written between the two); close() suspends in                   *)
(* `await self.session.close()`, which marks the pool closed before it     *)
(* waits for the connections to go down; `await self.connect()` never      *)
(* suspends.  A suspended coroutine can be cancelled: CancelledError is    *)
(* raised at its await and no handler of the client catches it.            *)
(***************************************************************************)
\* A scheduler that lets any task run at any point, as threads would.
MayRunPreempted(t) == TRUE

\* Cooperative scheduling: task t can take a step when no other task is between
\* two suspension points.
MayRun(t) == running \in {0, t}

\* The operations the tasks call through _request.
TaskOps == {"login", "get_status"}

\* The outcomes of their requests: for each operation its documented answer,
\* an error answer and a failure before any answer; for login also a second
\* token and a null token.
TaskNet(op) ==
    {net \in Net(op) :
        \/ net.kind = "timeout"
        \/ net.status = 500 /\ net.text = TxtMessage
        \/ net.status = 200
              /\ net.text \in {TxtToken1, TxtToken2, TxtTokenNull, TxtStatus}}

\* The result of operation op for the outcome net of its request.
ResultOf(op, net) ==
    IF op = "login"
    THEN login_result(_request(net))
    ELSE get_status_result(_request(net))

\* _get_headers with its two reads of self._token apart: tok1 is the value the
\* test `if self._token:` saw, tok2 the value the f-string formatted.
HeadersRead(tok1, tok2, key) ==
    IF Truthy(tok1)
    THEN ("Content-Type" :> "application/json")
             @@ ("Authorization" :> ("Bearer " \o Format(tok2)))
    ELSE HeadersOf(tok1, key)

CancelledError == Exc("CancelledError", "", 0, "")

\* session.request(...) on a ClientSession that is closed.
SessionIsClosed == Exc("RuntimeError", "", 0, "Session is closed")

\* The tasks after task t took a step that leaves it with record rec: every
\* other task that is inside a call has no longer run alone.
After(t, rec) ==
    [u \in Tasks |->
        IF u = t
        THEN rec
        ELSE IF tasks[u].pc = "idle"
             THEN tasks[u]
             ELSE [tasks[u] EXCEPT !.alone = FALSE]]

Stepped(op, t, exc) == [op |-> op, task |-> t, call |-> tasks[t], exc |-> exc]

\* A task enters a call: what the call can compare the client with later.
Entered(t, pc, op) ==
    [IdleTask EXCEPT !.pc = pc, !.op = op, !.tok0 = token, !.key0 = api_key,
                     !.sess0 = session]

\* connect() called by task t: it runs to its end.
task_connect(t) ==
    /\ tasks[t].pc = "idle"
    /\ MayRun(t)
    /\ Connected
    /\ tasks' = After(t, IdleTask)
    /\ step' = Stepped("connect", t, NoExc)
    /\ UNCHANGED <<token, api_key, last, closed, issued, granted, enc, tool, running>>

\* _request up to the call of _get_headers: `if not self.session: await
\* self.connect()`, the url.
request_enter(t, op) ==
    /\ tasks[t].pc = "idle"
    /\ MayRun(t)
    /\ Connected
    /\ tasks' = After(t, [Entered(t, "headers", op) EXCEPT !.pool = session'])
    /\ running' = t
    /\ step' = Stepped("enter", t, NoExc)
    /\ UNCHANGED <<token, api_key, last, closed, issued, granted, enc, tool>>

\* _get_headers, `if self._token:`
get_headers_test(t) ==
    /\ tasks[t].pc = "headers"
    /\ MayRun(t)
    /\ tasks' = After(t, [tasks[t] EXCEPT !.pc = "format", !.seen1 = token])
    /\ step' = Stepped("test", t, NoExc)
    /\ UNCHANGED <<session, pools, token, api_key, last, closed, issued, granted,
                   enc, tool, running>>

\* _get_headers, `headers["Authorization"] = f"Bearer {self._token}"`, and the
\* call self.session.request(...): on an open session the coroutine suspends
\* with the request issued, on a closed one the call raises at once.
get_headers_format(t) ==
    /\ tasks[t].pc = "format"
    /\ MayRun(t)
    /\ IF pools[tasks[t].pool] = "open"
       THEN /\ tasks' = After(t, [tasks[t] EXCEPT
                                     !.pc = "await", !.seen2 = token,
                                     !.headers = HeadersRead(tasks[t].seen1, token,
                                                             api_key)])
            /\ step' = Stepped("request", t, NoExc)
       ELSE /\ tasks' = After(t, IdleTask)
            /\ step' = Stepped("finish", t, SessionIsClosed)
    /\ running' = 0
    /\ UNCHANGED <<session, pools, token, api_key, last, closed, issued, granted,
                   enc, tool>>

\* The response (or the failure) arrives: _request and the operation run to
\* their return or raise; login stores the token.
request_resume(t) ==
    /\ tasks[t].pc = "await"
    /\ MayRun(t)
    /\ \E net \in TaskNet(tasks[t].op) :
          LET res == ResultOf(tasks[t].op, net)
          IN  /\ token' = IF tasks[t].op = "login"
                          THEN login_token(res, token)
                          ELSE token
              /\ step' = Stepped("finish", t, res.exc)
    /\ tasks' = After(t, IdleTask)
    /\ UNCHANGED <<session, pools, api_key, last, closed, issued, granted, enc, tool,
                   running>>

\* close() up to its await: `if self.session: await self.session.close()`.
\* With no session close() returns; on a session that is closed already
\* session.close() returns at once and close() runs on to
\* `self.session = None`; on an open session the pool is closed and the
\* coroutine suspends.
close_enter(t) ==
    /\ tasks[t].pc = "idle"
    /\ MayRun(t)
    /\ IF session = 0
       THEN /\ tasks' = After(t, IdleTask)
            /\ step' = Stepped("close", t, NoExc)
            /\ UNCHANGED <<session, pools, closed>>
       ELSE IF pools[session] = "closed"
            THEN /\ session' = 0
                 /\ tasks' = After(t, IdleTask)
                 /\ step' = Stepped("close", t, NoExc)
                 /\ UNCHANGED <<pools, closed>>
            ELSE /\ pools' = [pools EXCEPT ![session] = "closed"]
                 /\ closed' = TRUE
                 /\ tasks' = After(t, [Entered(t, "closing", "close")
                                          EXCEPT !.pool = session])
                 /\ step' = Stepped("closing", t, NoExc)
                 /\ UNCHANGED session
    /\ UNCHANGED <<token, api_key, last, issued, granted, enc, tool, running>>

\* close() after its await: `self.session = None`.
close_resume(t) ==
    /\ tasks[t].pc = "closing"
    /\ MayRun(t)
    /\ session' = 0
    /\ tasks' = After(t, IdleTask)
    /\ step' = Stepped("close", t, NoExc)
    /\ UNCHANGED <<pools, token, api_key, last, closed, issued, granted, enc, tool,
                   running>>

\* The task is cancelled while it is suspended: CancelledError propagates out
\* of the coroutine; the statements after the await do not run.
cancel(t) ==
    /\ tasks[t].pc \in {"await", "closing"}
    /\ MayRun(t)
    /\ tasks' = After(t, IdleTask)
    /\ step' = Stepped("cancel", t, CancelledError)
    /\ UNCHANGED <<session, pools, token, api_key, last, closed, issued, granted,
                   enc, tool, running>>

ConcNext ==
    \E t \in Tasks :
        \/ task_connect(t)
        \/ \E op \in TaskOps : request_enter(t, op)
        \/ get_headers_test(t)
        \/ get_headers_format(t)
        \/ request_resume(t)
        \/ close_enter(t)
        \/ close_resume(t)
        \/ cancel(t)

ConcSpec == Init /\ [][ConcNext]_vars

(***************************************************************************)
(* ToolSpec: one call of create_patrol_route                               *)
(* (src/claude-interface/claude_tools/tak_tools.py): it encodes the route, *)
(* opens a client of its own with `async with`, sends the documents one by *)
(* one and leaves the `async with` block.  The arguments are drawn in the  *)
(* initial state; every await of the coroutine ends a step.                *)
(***************************************************************************)
\* `Route(waypoints=[(LatLon(lat, lon, 0), name) for lat, lon, name in
\* waypoints])` for a list of n waypoints.
PatrolRoute(n) ==
    [i \in 1..n |-> <<LatLon(PyFloat(32 + i), PyFloat(-116 - i), PyInt(0)),
                      "WP" \o ToString(i)>>]

\* The outcomes of a send: no connection, no answer in time, an error answer,
\* an answer with every field, and an answer without message_id.
ToolNet ==
    {net \in Net("send_cot_message") :
        \/ net.kind \in {"refused", "timeout"}
        \/ net.status = 500 /\ net.text = TxtMessage
        \/ net.status = 200 /\ net.text \in {TxtSendClean, TxtSendNoId}}

\* Whether the server took the document of a request with outcome net: it did
\* when it answered below 400, it did not when it refused the connection or
\* answered with an error, and a request that timed out may have reached it
\* or not.
Took(net) ==
    IF net.kind = "timeout"
    THEN BOOLEAN
    ELSE {net.kind = "response" /\ net.status < ErrorStatus}

ToolInit ==
    /\ ClientInit
    /\ api_key = None
    /\ enc = NoCall
    /\ tasks = [t \in Tasks |-> IdleTask]
    /\ running = 0
    /\ step = NoStep
    /\ \E n \in 0..MaxWaypoints, route_name \in Names :
          tool = [NoTool EXCEPT !.pc = "encode", !.waypoints = PatrolRoute(n),
                                !.route_name = route_name]

\* `cot_messages = builder.create_route_event(route, route_name, color)`, before
\* the try: an exception of the encoder leaves the tool.
patrol_encode ==
    /\ tool.pc = "encode"
    /\ \E uuid \in Uuids, now \in Nows :
          LET res == create_route_event_result(tool.waypoints, tool.route_name,
                                               "yellow", None, uuid, now)
          IN  tool' = IF res.exc # NoExc
                      THEN [tool EXCEPT !.pc = "done", !.exc = res.exc,
                                        !.result = "raised"]
                      ELSE [tool EXCEPT !.pc = "enter", !.msgs = res.docs]
    /\ UNCHANGED <<session, pools, token, api_key, last, closed, issued, granted,
                   enc, tasks, running, step>>

\* `async with OmniTAKClient() as client:` __aenter__ awaits connect().
patrol_enter ==
    /\ tool.pc = "enter"
    /\ Connected
    /\ last' = Local("aenter")
    /\ tool' = [tool EXCEPT !.pc = "send"]
    /\ UNCHANGED <<token, api_key, closed, issued, granted, enc, tasks, running,
                   step>>

\* One turn of `for msg in cot_messages: await client.send_cot_message(msg)`:
\* the next document is sent; an exception of the send leaves the loop.
patrol_send ==
    /\ tool.pc = "send"
    /\ Len(tool.sent) < Len(tool.msgs)
    /\ \E net \in ToolNet :
          LET msg == tool.msgs[Len(tool.sent) + 1]
              res == send_cot_message_result(_request(net))
          IN  /\ Called("send_cot_message", "POST", "/api/v1/cot/send",
                        send_cot_message_data(msg, None, TRUE, "5"), net, res)
              /\ \E took \in Took(net) :
                    tool' = [tool EXCEPT
                                !.sent = Append(@, msg),
                                !.accepted = IF took THEN Append(@, msg) ELSE @,
                                !.exc = res.exc,
                                !.pc = IF Raised(res) THEN "exit" ELSE "send"]
    /\ UNCHANGED <<token, api_key, closed, issued, granted, enc, tasks, running,
                   step>>

\* The end of the `async with` block, reached by the end of the loop or by an
\* exception: __aexit__ awaits close(); then `return "✓ ..."`, or
\* `except OmniTAKError: return "✗ ..."`, or the exception leaves the tool.
patrol_exit ==
    /\ \/ tool.pc = "exit"
       \/ tool.pc = "send" /\ Len(tool.sent) = Len(tool.msgs)
    /\ Closing
    /\ last' = Local("aexit")
    /\ tool' = [tool EXCEPT
                   !.pc = "done",
                   !.result = IF tool.exc = NoExc
                              THEN "ok"
                              ELSE IF tool.exc.type = "OmniTAKError"
                                   THEN "failed"
                                   ELSE "raised"]
    /\ UNCHANGED <<token, api_key, issued, granted, enc, tasks, running, step>>

ToolNext ==
    \/ patrol_encode
    \/ patrol_enter
    \/ patrol_send
    \/ patrol_exit

ToolSpec == ToolInit /\ [][ToolNext]_vars

(***************************************************************************)
(* Vocabulary of the properties.  The specification's error taxonomy is    *)
(* read onto the code's single exception class by the place that raises    *)
(* it: TransportError is the OmniTAKError of `except aiohttp.ClientError`, *)
(* ProtocolError the one of the `status >= 400` branch, DecodingError the  *)
(* one of `except json.JSONDecodeError`.  Any other exception type is an   *)
(* untyped error for the caller.                                           *)
(***************************************************************************)
IsTransportError(e) ==
    e.type = "OmniTAKError" /\ e.site = "HTTP request failed" /\ e.status = 0

IsProtocolError(e) == e.type = "OmniTAKError" /\ e.site = "API error"

IsDecodingError(e) == e.type = "OmniTAKError" /\ e.site = "Invalid JSON response"

IsClientClosedError(e) == e.type = "ClientClosedError"

NoResponse(net) == net.kind \in NetFailures

ErrorResponse(net) == net.kind = "response" /\ net.status >= ErrorStatus

GoodResponse(net) == net.kind = "response" /\ net.status < ErrorStatus

\* The request of the last operation failed: no response, or an error status.
RequestFailed(net) == NoResponse(net) \/ ErrorResponse(net)

\* The best-effort decoded message of an error body: the message field of a JSON
\* object that has one, else the raw text.
DecodedMessage(text) ==
    LET v == JsonLoads(text)
    IN  IF v.k = "obj" /\ "message" \in DOMAIN v.f
        THEN Format(v.f["message"])
        ELSE text

\* The fields a successful body must carry for the operation's structured result.
RequiredFields(op) ==
    CASE op = "login"            -> {"token"}
      [] op = "get_status"       -> Range(StatusFields)
      [] op = "send_cot_message" -> SendFields
      [] OTHER                   -> {}

\* The body parses into the structured result the operation expects.
WellFormed(op, text) ==
    /\ JsonLoads(text).k = "obj"
    /\ RequiredFields(op) \subseteq DOMAIN JsonLoads(text).f

(***************************************************************************)
(* C1.  Closed is terminal: once close() has closed the session, every     *)
(* later request-shaped operation fails with ClientClosedError without     *)
(* issuing an HTTP request, and the client holds no session again.         *)
(* (`last` is overwritten by close, so a request operation in `last` while *)
(* `closed` holds ran after the close.)                                    *)
(***************************************************************************)
C1_ClosedIsTerminal ==
    closed =>
        /\ session = 0
        /\ last.op \in RequestOps =>
              IsClientClosedError(last.exc) /\ last.reqs = 0

(***************************************************************************)
(* C2.  A failed login (no response, an error status, or a body without a  *)
(* usable token) leaves the stored token as it was before the attempt.     *)
(***************************************************************************)
LoginFailed(net) ==
    \/ RequestFailed(net)
    \/ ~UsableToken(JsonLoads(net.text))

\* The token a client holds: None and the empty string both mean no token.
Held(tok) == IF Truthy(tok) THEN tok ELSE None

C2_FailedLoginKeepsToken ==
    (last.op = "login" /\ LoginFailed(last.net)) =>
        Held(token) = Held(last.tokBefore)

C4_TokenClearedOnClose ==
    last.op \in {"close", "aexit"} => token = None

(***************************************************************************)
(* C5.  Every request carries its credentials once and by preference: the  *)
(* bearer token alone when a token is held, else the API key alone when    *)
(* one is configured, else neither; and every request issued after a       *)
(* successful login carries the token of the most recent successful login. *)
(***************************************************************************)
HeaderPreference(h, tok, key) ==
    /\ Truthy(tok) =>
          /\ "Authorization" \in DOMAIN h
          /\ h["Authorization"] = "Bearer " \o tok.s
          /\ "X-API-Key" \notin DOMAIN h
    /\ (~Truthy(tok) /\ Truthy(key)) =>
          /\ "X-API-Key" \in DOMAIN h
          /\ h["X-API-Key"] = key.s
          /\ "Authorization" \notin DOMAIN h
    /\ (~Truthy(tok) /\ ~Truthy(key)) =>
          DOMAIN h \cap {"Authorization", "X-API-Key"} = {}

\* The first half of C5 alone: it holds in every reachable state.
HeadersFollowPreference ==
    last.op \in RequestOps =>
        HeaderPreference(last.req.headers, last.tokBefore, api_key)

C5_Credentials ==
    last.op \in RequestOps =>
        /\ HeadersFollowPreference
        /\ (last.op # "login" /\ granted # NoLogin) =>
              /\ "Authorization" \in DOMAIN last.req.headers
              /\ last.req.headers["Authorization"] = "Bearer " \o granted.s

(***************************************************************************)
(* C6.  health_check never throws: whatever the probe's outcome it returns *)
(* a boolean, and False whenever the request failed or the body was not    *)
(* valid JSON.                                                             *)
(***************************************************************************)
C6_HealthCheckNeverThrows ==
    last.op = "health_check" =>
        /\ last.exc = NoExc
        /\ last.ret \in {Bool(TRUE), Bool(FALSE)}
        /\ (RequestFailed(last.net) \/ JsonLoads(last.net.text).k = "invalid") =>
              last.ret = Bool(FALSE)

(***************************************************************************)
(* C7.  No implicit retries: an operation issues at most one HTTP request, *)
(* and when that request fails the caller gets the failure once, as a      *)
(* typed error (health_check, by its contract, as False).                  *)
(***************************************************************************)
\* The first half of C7 alone: it holds in every reachable state.
AtMostOneRequest == last.op \in RequestOps => last.reqs <= 1

C7_NoRetry ==
    last.op \in RequestOps =>
        /\ AtMostOneRequest
        /\ (RequestFailed(last.net) /\ last.op # "health_check") =>
              last.exc.type = "OmniTAKError"
        /\ (RequestFailed(last.net) /\ last.op = "health_check") =>
              last.exc = NoExc /\ last.ret = Bool(FALSE)

(***************************************************************************)
(* C8.  Every response with a status of 400 or more, whatever its body,    *)
(* makes the operation fail with ProtocolError carrying the status and the *)
(* decoded message (the raw text when the body is not structured data).    *)
(***************************************************************************)
C8_ErrorStatusIsProtocolError ==
    (last.op \in RequestOps \ {"health_check"} /\ ErrorResponse(last.net)) =>
        /\ IsProtocolError(last.exc)
        /\ last.exc.status = last.net.status
        /\ last.exc.msg = DecodedMessage(last.net.text)

(***************************************************************************)
(* C9.  Every failure before a response (DNS, refused, timeout) surfaces   *)
(* as TransportError without a status code; none escapes untyped           *)
(* (health_check, by its contract, answers False).                         *)
(***************************************************************************)
C9_NoResponseIsTransportError ==
    (last.op \in RequestOps /\ NoResponse(last.net)) =>
        IF last.op = "health_check"
        THEN last.exc = NoExc /\ last.ret = Bool(FALSE)
        ELSE IsTransportError(last.exc)

(***************************************************************************)
(* C10.  A response below 400 whose body is not valid JSON, or lacks a     *)
(* field of the expected result, makes the operation fail with             *)
(* DecodingError, a kind of its own.                                       *)
(***************************************************************************)
C10_BadBodyIsDecodingError ==
    (/\ last.op \in RequestOps \ {"health_check"}
     /\ GoodResponse(last.net)
     /\ ~WellFormed(last.op, last.net.text)) =>
        /\ IsDecodingError(last.exc)
        /\ ~IsProtocolError(last.exc)
        /\ ~IsTransportError(last.exc)

(***************************************************************************)
(* C11.  login fails with the client's error, carrying the server's status *)
(* and message, on every response outside 2xx and on every body that is    *)
(* not JSON or is JSON without a token field, and stores no token then.    *)
(***************************************************************************)
Is2xx(net) == net.kind = "response" /\ net.status \in 200..299

C11_LoginRejectsBadAnswers ==
    (/\ last.op = "login"
     /\ last.net.kind = "response"
     /\ (~Is2xx(last.net) \/ ~WellFormed("login", last.net.text))) =>
        /\ last.exc.type = "OmniTAKError"
        /\ last.exc.status = last.net.status
        /\ last.exc.msg = DecodedMessage(last.net.text)
        /\ token = last.tokBefore

(***************************************************************************)
(* C12.  Warnings are never promoted to errors: a 2xx answer to            *)
(* send_cot_message that carries the five fields of a send result, with    *)
(* any number of warnings, makes the call return normally with exactly the *)
(* object the server sent.                                                 *)
(***************************************************************************)
C12_WarningsAreNotErrors ==
    (/\ last.op = "send_cot_message"
     /\ Is2xx(last.net)
     /\ WellFormed("send_cot_message", last.net.text)) =>
        /\ last.exc = NoExc
        /\ last.ret = JsonLoads(last.net.text)
        /\ \A key \in SendFields : last.ret.f[key] = JsonLoads(last.net.text).f[key]

\* A send answered 200 with two warnings has returned them to the caller.
C12_Witness ==
    /\ last.op = "send_cot_message"
    /\ last.net.status = 200
    /\ last.net.text = TxtSendWarn2
    /\ last.exc = NoExc
    /\ last.ret.k = "obj"
    /\ last.ret.f["warnings"] = List(<<Str("stale"), Str("filtered")>>)

(***************************************************************************)
(* C13.  Replacing the token is mutually exclusive with reads of it: under *)
(* every interleaving of requests and logins of the tasks, the token is    *)
(* never replaced while a task is between the two reads of _get_headers,   *)
(* and the Authorization header of every request carries one whole token,  *)
(* the one the client held when the request was issued.                    *)
(***************************************************************************)
\* No task is in the middle of _get_headers with a token that has been replaced
\* since its first read.
TokenReadsAreExclusive ==
    \A t \in Tasks : tasks[t].pc = "format" => tasks[t].seen1 = token

\* The headers of a request in flight are those of one token value.
RequestHeadersWhole ==
    \A t \in Tasks :
        tasks[t].pc = "await" =>
            /\ tasks[t].seen1 = tasks[t].seen2
            /\ tasks[t].headers = HeadersOf(tasks[t].seen1, api_key)

C13_TokenReadsExclusive == TokenReadsAreExclusive /\ RequestHeadersWhole

\* A login has replaced token t1 by t2 while a request issued under t1 is still
\* in flight: that request carries the whole old token.
C13_Witness ==
    /\ token = Str("t2")
    /\ step.op = "finish"
    /\ step.call.op = "login"
    /\ \E t \in Tasks :
          /\ tasks[t].pc = "await"
          /\ "Authorization" \in DOMAIN tasks[t].headers
          /\ tasks[t].headers["Authorization"] = "Bearer t1"

(***************************************************************************)
(* C14.  Cancelling a suspended operation leaves the session valid: the    *)
(* token, the API key and the session handle are what they were before the *)
(* cancelled call, the handle, if any, refers to an open pool, and so the  *)
(* next operation runs as if the cancelled call had not been made.  Stated *)
(* for calls that no step of another task interleaved with.                *)
(***************************************************************************)
\* The step just taken cancelled a call during which no other task ran.
CancelledAlone == step.op = "cancel" /\ step.call.alone

HandleValid == session # 0 => pools[session] = "open"

C14_CancelLeavesSessionValid ==
    CancelledAlone =>
        /\ token = step.call.tok0
        /\ api_key = step.call.key0
        /\ session = step.call.sess0
        /\ HandleValid

\* The part of C14 that holds: whatever is cancelled, the token and the API key
\* are untouched.
CancelKeepsCredentials ==
    CancelledAlone => token = step.call.tok0 /\ api_key = step.call.key0

(***************************************************************************)
(* C15.  The pool is released on every exit path: when close() (called     *)
(* directly or by __aexit__, after a normal, failed or cancelled body) has *)
(* ended, by returning or by being cancelled, no pool the client acquired  *)
(* is open.                                                                *)
(***************************************************************************)
\* The step just taken ended a close().
CloseEnded ==
    \/ step.op = "close"
    \/ step.op = "cancel" /\ step.call.op = "close"

C15_PoolsReleasedAtExit ==
    CloseEnded => \A i \in DOMAIN pools : pools[i] = "closed"

\* C15 for one caller (Spec): after every close() and every __aexit__ no pool is
\* open.  It holds in every state of Spec.
PoolsReleasedSequential ==
    last.op \in {"close", "aexit"} => \A i \in DOMAIN pools : pools[i] = "closed"

(***************************************************************************)
(* Reading a document.  A reader of the XML text finds an element by its   *)
(* opening "<tag " and takes an attribute's value from the opening quote   *)
(* to the next quote.                                                      *)
(***************************************************************************)
\* Op applied to the value of v, with v evaluated once.
Bind(v, Op(_)) == CHOOSE r \in {Op(x) : x \in {v}} : TRUE

\* The first place at or after `from` where pat occurs in text, 0 when there is
\* none; the text is scanned 48 places at a time.
RECURSIVE Find(_, _, _)
Find(text, pat, from) ==
    IF from + Len(pat) - 1 > Len(text)
    THEN 0
    ELSE LET hits == {i \in from..(from + 47) :
                         /\ i + Len(pat) - 1 <= Len(text)
                         /\ SubSeq(text, i, i + Len(pat) - 1) = pat}
         IN  IF hits # {}
             THEN CHOOSE i \in hits : \A j \in hits : i <= j
             ELSE Find(text, pat, from + 48)

\* The places at or after `from` where pat occurs, in ascending order.
RECURSIVE FindAll(_, _, _)
FindAll(text, pat, from) ==
    LET at == Find(text, pat, from)
    IN  IF at = 0 THEN <<>> ELSE <<at>> \o FindAll(text, pat, at + 1)

\* The places of the elements named tag, in document order.
Elements(text, tag) == FindAll(text, "<" \o tag \o " ", 1)

\* The value of attribute `name` of the element that opens at place elem.
Attr(text, elem, name) ==
    Bind(Find(text, " " \o name \o "=\"", elem) + Len(name) + 3,
         LAMBDA at : SubSeq(text, at, Find(text, "\"", at) - 1))

\* The attribute of the first element named tag.
AttrOf(text, tag, name) == Attr(text, Find(text, "<" \o tag \o " ", 1), name)

DigitOf(c) ==
    CASE c = "0" -> 0 [] c = "1" -> 1 [] c = "2" -> 2 [] c = "3" -> 3 [] c = "4" -> 4
      [] c = "5" -> 5 [] c = "6" -> 6 [] c = "7" -> 7 [] c = "8" -> 8 [] c = "9" -> 9

RECURSIVE ParseDigits(_, _)
ParseDigits(text, acc) ==
    IF Len(text) = 0
    THEN acc
    ELSE ParseDigits(Tail(text), 10 * acc + DigitOf(Head(text)))

\* The number a decimal text denotes, for texts with no fraction or fraction 0.
ParseNum(text) ==
    LET neg   == Len(text) > 0 /\ Head(text) = "-"
        body  == IF neg THEN Tail(text) ELSE text
        dot   == Find(body, ".", 1)
        whole == IF dot = 0 THEN body ELSE SubSeq(body, 1, dot - 1)
    IN  IF neg THEN 0 - ParseDigits(whole, 0) ELSE ParseDigits(whole, 0)

\* The position an element (point or vertex) at place elem carries.
PositionAt(text, elem) ==
    Bind(elem, LAMBDA at : [lat |-> ParseNum(Attr(text, at, "lat")),
                            lon |-> ParseNum(Attr(text, at, "lon")),
                            hae |-> ParseNum(Attr(text, at, "hae"))])

\* The position a LatLon denotes.
PositionOf(p) == [lat |-> p.lat.n, lon |-> p.lon.n, hae |-> p.hae.n]

EventUid(doc) == AttrOf(doc, "event", "uid")

Callsign(doc) == AttrOf(doc, "contact", "callsign")

AnchorOf(doc) == PositionAt(doc, Find(doc, "<point ", 1))

\* A route call has run; the id of the route is the caller's uid, or the uid of
\* the route document when the encoder generated it.
RouteDone == enc.op = "create_route_event" /\ enc.done

RouteId == IF Truthy(enc.uid) THEN enc.uid.s ELSE EventUid(enc.docs[1])

\* A text free of the characters XML reserves in an attribute value.
PlainText(text) ==
    /\ Find(text, "\"", 1) = 0
    /\ Find(text, "<", 1) = 0
    /\ Find(text, "&", 1) = 0

(***************************************************************************)
(* C16.  A route of N >= 2 waypoints yields N+1 documents: the route       *)
(* document, whose uid is the route id, then the waypoint documents in     *)
(* input order; the document at position i+1 has uid <route-id>-wp-<i>     *)
(* (i from 0) and carries the position and the label of waypoint i.        *)
(***************************************************************************)
\* What document k+1 must carry for waypoint k (k from 1) of the input.
CarriesWaypoint(k) ==
    /\ EventUid(enc.docs[k + 1]) = RouteId \o "-wp-" \o ToString(k - 1)
    /\ AnchorOf(enc.docs[k + 1]) = PositionOf(enc.shape[k][1])
    /\ Callsign(enc.docs[k + 1]) = enc.shape[k][2]

\* C16 for the waypoints whose label is plain text: it holds in every state.
RouteDocumentsPlainLabels ==
    (RouteDone /\ Len(enc.shape) >= 2) =>
        /\ enc.exc = NoExc
        /\ Len(enc.docs) = Len(enc.shape) + 1
        /\ Truthy(enc.uid) => EventUid(enc.docs[1]) = enc.uid.s
        /\ \A k \in DOMAIN enc.shape :
              PlainText(enc.shape[k][2]) => CarriesWaypoint(k)

C16_RouteDocuments ==
    (RouteDone /\ Len(enc.shape) >= 2) =>
        /\ enc.exc = NoExc
        /\ Len(enc.docs) = Len(enc.shape) + 1
        /\ Truthy(enc.uid) => EventUid(enc.docs[1]) = enc.uid.s
        /\ \A k \in DOMAIN enc.shape : CarriesWaypoint(k)

(***************************************************************************)
(* C17.  The route document embeds one link per waypoint, the i-th (from   *)
(* 0) targeting <route-id>-wp-<i>; every link target is the uid of exactly *)
(* one returned waypoint document and every returned waypoint document is  *)
(* the target of exactly one link.                                         *)
(***************************************************************************)
\* The targets of the links of the route document, in document order.
LinkTargets ==
    Bind(Elements(enc.docs[1], "link"),
         LAMBDA links : [i \in DOMAIN links |-> Attr(enc.docs[1], links[i], "uid")])

\* The uids of the waypoint documents, in the order returned.
WaypointUids == [k \in 1..(Len(enc.docs) - 1) |-> EventUid(enc.docs[k + 1])]

C17_LinksMatchWaypoints ==
    (RouteDone /\ enc.exc = NoExc) =>
        LET targets == LinkTargets
            uids    == WaypointUids
            rid     == RouteId
        IN  /\ Len(targets) = Len(enc.shape)
            /\ \A i \in DOMAIN targets :
                  targets[i] = rid \o "-wp-" \o ToString(i - 1)
            /\ \A i \in DOMAIN targets :
                  Cardinality({k \in DOMAIN uids : uids[k] = targets[i]}) = 1
            /\ \A k \in DOMAIN uids :
                  Cardinality({i \in DOMAIN targets : targets[i] = uids[k]}) = 1

\* A route of three stops, one of them visited twice in a row, has been encoded
\* under a generated id: three links, three waypoint documents.
C17_Witness ==
    /\ RouteDone
    /\ enc.exc = NoExc
    /\ ~Truthy(enc.uid)
    /\ Len(enc.shape) = 3
    /\ enc.shape[1] = enc.shape[2]
    /\ enc.shape[3] # enc.shape[1]
    /\ Len(LinkTargets) = 3
    /\ LinkTargets[3] = WaypointUids[3]

(***************************************************************************)
(* C18.  A route with fewer than 2 waypoints (0 or 1) is refused with      *)
(* EncodingError and no document is returned.                              *)
(***************************************************************************)
IsEncodingError(e) == e.type = "EncodingError"

C18_ShortRouteRefused ==
    (RouteDone /\ Len(enc.shape) < 2) =>
        /\ IsEncodingError(enc.exc)
        /\ enc.docs = <<>>

(***************************************************************************)
(* C19.  A polygon with fewer than 3 vertices (0, 1 or 2) is refused with  *)
(* EncodingError and no output is produced.                                *)
(***************************************************************************)
PolygonDone == enc.op = "create_polygon_event" /\ enc.done

C19_SmallPolygonRefused ==
    (PolygonDone /\ Len(enc.shape) < 3) =>
        /\ IsEncodingError(enc.exc)
        /\ enc.docs = <<>>

(***************************************************************************)
(* C20.  For a polygon of at least 3 vertices the polyline of the document *)
(* lists exactly the input vertices in input order, with no closing        *)
(* duplicate added and with closed="true", and the point of the document   *)
(* is the first input vertex.                                              *)
(***************************************************************************)
\* The positions the polyline of a document lists, in document order.
PolylineOf(doc) ==
    Bind(FindAll(doc, "<vertex ", Find(doc, "<polyline ", 1)),
         LAMBDA places : [i \in DOMAIN places |-> PositionAt(doc, places[i])])

C20_PolylineIsInput ==
    (PolygonDone /\ Len(enc.shape) >= 3) =>
        /\ enc.exc = NoExc
        /\ Len(enc.docs) = 1
        /\ PolylineOf(enc.docs[1])
              = [i \in DOMAIN enc.shape |-> PositionOf(enc.shape[i])]
        /\ AttrOf(enc.docs[1], "polyline", "closed") = "true"
        /\ AnchorOf(enc.docs[1]) = PositionOf(enc.shape[1])

\* A polygon of four vertices, the last different from the first, has been
\* encoded: its polyline lists four vertices.
C20_Witness ==
    /\ PolygonDone
    /\ enc.exc = NoExc
    /\ Len(enc.shape) = 4
    /\ enc.shape[4] # enc.shape[1]
    /\ Len(PolylineOf(enc.docs[1])) = 4
    /\ PolylineOf(enc.docs[1])[4] = PositionOf(enc.shape[4])

(***************************************************************************)
(* C21.  In every document time and start are the clock reading of the     *)
(* call, all documents of one call carry the same reading, and stale is    *)
(* exactly 12 hours after it in a marker and exactly 24 hours after it in  *)
(* a circle, a polygon, a route and every waypoint of a route.             *)
(***************************************************************************)
\* The instant an ISO text YYYY-MM-DDTHH:MM:SS[.ffffff] of 2025 denotes, on the
\* hour; any other text denotes none.
ParseTime(text) ==
    IF /\ Len(text) \in {19, 26}
       /\ SubSeq(text, 1, 5) = "2025-"
       /\ SubSeq(text, 8, 8) = "-"
       /\ SubSeq(text, 11, 11) = "T"
       /\ SubSeq(text, 14, 19) = ":00:00"
       /\ Len(text) = 26 => SubSeq(text, 20, 20) = "."
    THEN DateTime(ParseDigits(SubSeq(text, 6, 7), 0),
                  ParseDigits(SubSeq(text, 9, 10), 0),
                  ParseDigits(SubSeq(text, 12, 13), 0),
                  IF Len(text) = 26 THEN ParseDigits(SubSeq(text, 21, 26), 0) ELSE 0)
    ELSE DateTime(0, 0, 0, 0)

\* The instant the element <tag>...Z</tag> of a document carries.
TimeOf(doc, tag) ==
    Bind(Find(doc, "<" \o tag \o ">", 1) + Len(tag) + 2,
         LAMBDA at : ParseTime(SubSeq(doc, at, Find(doc, "Z</" \o tag \o ">", at) - 1)))

\* The days of 2025 before month mo.
RECURSIVE DaysBefore(_)
DaysBefore(mo) == IF mo <= 1 THEN 0 ELSE DaysBefore(mo - 1) + DaysIn(mo - 1)

\* The hours from the start of 2025 to an instant.
HoursOf(t) == (DaysBefore(t.mo) + t.d - 1) * 24 + t.h

\* t2 is exactly k hours after t1.
HoursAfter(t1, t2, k) == HoursOf(t2) = HoursOf(t1) + k /\ t2.us = t1.us

\* The staleness horizon of the documents of a method, in hours.
HorizonOf(op) == IF op = "create_marker_event" THEN 12 ELSE 24

C21_StaleHorizons ==
    (enc.done /\ enc.exc = NoExc) =>
        \A i \in DOMAIN enc.docs :
            Bind(enc.docs[i],
                 LAMBDA doc :
                    /\ TimeOf(doc, "time") = enc.now
                    /\ TimeOf(doc, "start") = enc.now
                    /\ HoursAfter(enc.now, TimeOf(doc, "stale"), HorizonOf(enc.op))
                    /\ HoursOf(TimeOf(doc, "stale")) > HoursOf(TimeOf(doc, "start")))

\* A marker of an undocumented kind has been encoded on the evening of
\* 31 January: it goes stale on 1 February at 06:00.
C21_Witness ==
    /\ enc.done
    /\ enc.exc = NoExc
    /\ enc.op = "create_marker_event"
    /\ enc.kind = "checkpoint"
    /\ enc.now = DateTime(1, 31, 18, 0)
    /\ TimeOf(enc.docs[1], "stale") = DateTime(2, 1, 6, 0)

(***************************************************************************)
(* C22.  No colour name makes a circle, a polygon or a route fail; the     *)
(* colour value of the document is -65536 for red, -16711936 for green,    *)
(* -16776961 for blue, -256 for yellow, and for every other name the value *)
(* of red in a circle, of green in a polygon, of yellow in a route; a      *)
(* polygon's fill value is 1342177280 when filled and 0 when not.          *)
(***************************************************************************)
\* The colour value a name stands for in the documents of a method.
ColorValueOf(name, op) ==
    CASE name = "red"    -> "-65536"
      [] name = "green"  -> "-16711936"
      [] name = "blue"   -> "-16776961"
      [] name = "yellow" -> "-256"
      [] OTHER -> CASE op = "create_circle_event"  -> "-65536"
                    [] op = "create_polygon_event" -> "-16711936"
                    [] op = "create_route_event"   -> "-256"

\* A call of a method that takes a colour has run on a shape that has a first
\* position.
ColoredDone ==
    /\ enc.done
    /\ enc.op \in {"create_circle_event", "create_polygon_event",
                   "create_route_event"}
    /\ enc.op = "create_circle_event" \/ enc.shape # <<>>

C22_ColorsResolve ==
    ColoredDone =>
        /\ enc.exc = NoExc
        /\ Bind(enc.docs[1],
                LAMBDA doc :
                   /\ AttrOf(doc, "color", "value") = ColorValueOf(enc.color, enc.op)
                   /\ enc.op # "create_route_event" =>
                         AttrOf(doc, "strokeColor", "value")
                            = ColorValueOf(enc.color, enc.op)
                   /\ enc.op = "create_polygon_event" =>
                         AttrOf(doc, "fillColor", "value")
                            = (IF enc.filled THEN "1342177280" ELSE "0"))

\* A filled blue polygon has been encoded: its colour value is blue's, its fill
\* value the filled one.
C22_Witness ==
    /\ ColoredDone
    /\ enc.op = "create_polygon_event"
    /\ enc.color = "blue"
    /\ enc.filled
    /\ AttrOf(enc.docs[1], "color", "value") = "-16776961"
    /\ AttrOf(enc.docs[1], "fillColor", "value") = "1342177280"

(***************************************************************************)
(* C23.  Over the calls of one process whose caller never supplies the     *)
(* same identifier twice, no document carries a uid that another document  *)
(* of the same call or of an earlier call carries, waypoint uids included; *)
(* a uid the caller supplied is the uid of the document, and a missing one *)
(* is replaced by a fresh string that starts with the kind of the shape.   *)
(***************************************************************************)
\* The uids the documents of the call carry.
DocUids == {EventUid(enc.docs[i]) : i \in DOMAIN enc.docs}

\* The caller has not supplied the identifier of this call before.
CallerIdIsNew == enc.uid = None \/ enc.uid.s \notin enc.given

\* text starts with the kind of the shape and a dash.
KindPrefixed(text, op) ==
    /\ Len(text) > Len(KindOf(op)) + 1
    /\ SubSeq(text, 1, Len(KindOf(op)) + 1) = KindOf(op) \o "-"

C23_UidsUnique ==
    (enc.done /\ enc.exc = NoExc /\ CallerIdIsNew) =>
        /\ Cardinality(DocUids) = Len(enc.docs)
        /\ DocUids \cap enc.made = {}
        /\ enc.uid # None => EventUid(enc.docs[1]) = enc.uid.s
        /\ enc.uid = None => KindPrefixed(EventUid(enc.docs[1]), enc.op)

\* The uids of a call whose uid is generated: distinct from each other and from
\* every uid of an earlier call, and prefixed by the kind of the shape.
GeneratedUidsFresh ==
    (enc.done /\ enc.exc = NoExc /\ ~Truthy(enc.uid)) =>
        /\ Cardinality(DocUids) = Len(enc.docs)
        /\ DocUids \cap enc.made = {}
        /\ KindPrefixed(EventUid(enc.docs[1]), enc.op)

(***************************************************************************)
(* C24.  A call whose geometry has a point with latitude outside           *)
(* [-90, 90] or longitude outside [-180, 180] fails with EncodingError     *)
(* naming the coordinate range and returns no document.                    *)
(***************************************************************************)
\* The position is on the map.
InRange(p) == p.lat.n >= -90 /\ p.lat.n <= 90 /\ p.lon.n >= -180 /\ p.lon.n <= 180

\* The points of the geometry of the call.
PointsOf(call) ==
    CASE call.op = "create_route_event" ->
            {call.shape[i][1] : i \in DOMAIN call.shape}
      [] call.op = "create_polygon_event" ->
            {call.shape[i] : i \in DOMAIN call.shape}
      [] OTHER -> {call.shape}

C24_OffMapRefused ==
    (enc.done /\ \E p \in PointsOf(enc) : ~InRange(p)) =>
        /\ IsEncodingError(enc.exc)
        /\ enc.exc.site = "invalid-coordinate-range"
        /\ enc.docs = <<>>

(***************************************************************************)
(* C25.  The type of a marker document is a-f-G-E-S for friendly,          *)
(* a-h-G-E-S for hostile, a-n-G-E-S for neutral, a-u-G-E-S for unknown,    *)
(* b-a-o-tl for emergency, b-m-p-c for medical and a-f-G-E-S for every     *)
(* other kind; the document has a remarks element carrying the given text  *)
(* whenever remarks are supplied and none when they are not.               *)
(***************************************************************************)
\* The type code of a marker kind.
TypeCodeOf(kind) ==
    CASE kind = "friendly"  -> "a-f-G-E-S"
      [] kind = "hostile"   -> "a-h-G-E-S"
      [] kind = "neutral"   -> "a-n-G-E-S"
      [] kind = "unknown"   -> "a-u-G-E-S"
      [] kind = "emergency" -> "b-a-o-tl"
      [] kind = "medical"   -> "b-m-p-c"
      [] OTHER              -> "a-f-G-E-S"

MarkerDone == enc.op = "create_marker_event" /\ enc.done

\* The document has a remarks element.
HasRemarks(doc) == Find(doc, "<remarks>", 1) # 0

\* The text of the remarks element of the document.
RemarksOf(doc) ==
    Bind(Find(doc, "<remarks>", 1) + 9,
         LAMBDA at : SubSeq(doc, at, Find(doc, "</remarks>", at) - 1))

\* The marker document has the type of its kind, and a remarks element with
\* the given text exactly when `supplied` holds.
MarkerCarries(supplied) ==
    /\ enc.exc = NoExc
    /\ Len(enc.docs) = 1
    /\ Bind(enc.docs[1],
            LAMBDA doc :
               /\ AttrOf(doc, "event", "type") = TypeCodeOf(enc.kind)
               /\ supplied => HasRemarks(doc) /\ RemarksOf(doc) = enc.remarks.s
               /\ ~supplied => ~HasRemarks(doc))

\* C25 as stated: remarks are supplied when the argument is not None.
C25_MarkerTypeAndRemarks == MarkerDone => MarkerCarries(enc.remarks # None)

\* C25 with remarks supplied when the argument is a non-empty text: an empty
\* text, like None, produces no remarks element.
C25_MarkerTypeAndNonEmptyRemarks == MarkerDone => MarkerCarries(Truthy(enc.remarks))

\* A marker of an undocumented kind with remarks has been encoded: its type is
\* the friendly one and its remarks element carries the text.
C25_Witness ==
    /\ MarkerDone
    /\ enc.kind = "checkpoint"
    /\ enc.remarks = Str("Check at dusk")
    /\ AttrOf(enc.docs[1], "event", "type") = "a-f-G-E-S"
    /\ RemarksOf(enc.docs[1]) = "Check at dusk"

(***************************************************************************)
(* C27.  The body of every send_cot_message request has message,           *)
(* apply_filters (true by default) and priority (5 by default); it has     *)
(* target_connections, with the caller's list, whenever the caller gave a  *)
(* list, the empty list included, and has no such field only when the      *)
(* caller gave None.                                                       *)
(***************************************************************************)
\* The body `data` is the one the claim describes for a send of message cot_xml
\* to target (a list or None) with the default filters and priority.
SendBodyFor(data, cot_xml, target) ==
    /\ data.k = "obj"
    /\ {"message", "apply_filters", "priority"} \subseteq DOMAIN data.f
    /\ data.f["message"] = Str(cot_xml)
    /\ data.f["apply_filters"] = Bool(TRUE)
    /\ data.f["priority"] = Num("5")
    /\ target # None =>
          /\ "target_connections" \in DOMAIN data.f
          /\ data.f["target_connections"] = target
    /\ target = None => "target_connections" \notin DOMAIN data.f

C27_BroadcastOnlyWithoutTarget ==
    [][\A t \in Targets :
          send_cot_message("<event/>", t, TRUE, "5") =>
              SendBodyFor(last'.req.json, "<event/>", t)]_vars

\* The body of every send has the three fixed fields, and a target_connections
\* field, when it has one, is a list that is not empty.
SendBodyShape ==
    last.op = "send_cot_message" =>
        /\ SendBodyFor(last.req.json, "<event/>",
                       IF "target_connections" \in DOMAIN last.req.json.f
                       THEN last.req.json.f["target_connections"]
                       ELSE None)
        /\ "target_connections" \in DOMAIN last.req.json.f =>
              Truthy(last.req.json.f["target_connections"])

(***************************************************************************)
(* C26.  create_patrol_route sends the documents of the encoder one at a   *)
(* time in the encoder's order; when the k-th send fails the server has    *)
(* taken exactly the first k-1 documents, no later document is sent and    *)
(* the tool reports failure; it reports success only when every send       *)
(* succeeded.                                                              *)
(***************************************************************************)
\* s is the sequence of the first Len(s) elements of t.
IsPrefix(s, t) == Len(s) <= Len(t) /\ s = SubSeq(t, 1, Len(s))

\* The tool has ended after it entered the `async with` block.
PatrolDone == tool.pc = "done" /\ tool.msgs # <<>>

C26_RouteSendStopsAtFailure ==
    PatrolDone =>
        /\ IsPrefix(tool.sent, tool.msgs)
        /\ tool.result \in {"ok", "failed"}
        /\ tool.result = "ok" <=> tool.exc = NoExc
        /\ tool.result = "ok" => tool.sent = tool.msgs /\ tool.accepted = tool.msgs
        /\ tool.result = "failed" =>
              tool.accepted = SubSeq(tool.msgs, 1, Len(tool.sent) - 1)

\* The sends are the documents in order up to the first that raised, the
\* server has taken all of them but possibly the last, and the tool returns
\* its success text exactly when no send raised.
PatrolSendsInOrder ==
    PatrolDone =>
        /\ IsPrefix(tool.sent, tool.msgs)
        /\ IsPrefix(tool.accepted, tool.sent)
        /\ Len(tool.accepted) >= Len(tool.sent) - 1
        /\ tool.result = "ok" <=> tool.exc = NoExc
        /\ tool.result = "ok" => tool.sent = tool.msgs /\ tool.accepted = tool.msgs
        /\ session = 0

(***************************************************************************)
(* C28.  Under every interleaving of close() with the operations of other  *)
(* tasks, a session handle that an operation finds set refers to an open   *)
(* pool: no operation is about to request on a pool whose close has        *)
(* started, and none fails with the untyped error of a closed session.     *)
(***************************************************************************)
\* A task that has passed `if not self.session` holds an open pool.
RequestsHoldOpenPool ==
    \A t \in Tasks :
        tasks[t].pc \in {"headers", "format"} =>
            /\ tasks[t].pool # 0
            /\ pools[tasks[t].pool] = "open"

C28_NoRequestOnReleasedPool ==
    /\ RequestsHoldOpenPool
    /\ step.exc # SessionIsClosed

(***************************************************************************)
(* C29.  A client has at most one open pool at any time: connect() on a    *)
(* connected client and concurrent first requests create no second pool,   *)
(* and a close() that finds nothing to close raises nothing.               *)
(***************************************************************************)
\* The pools of the client that are open.
OpenPools == {i \in DOMAIN pools : pools[i] = "open"}

C29_AtMostOneOpenPool ==
    /\ Cardinality(OpenPools) <= 1
    /\ step.op = "close" => step.exc = NoExc

\* C29 for one caller (Spec): the only pool that can be open is the one the
\* session handle refers to.
OpenPoolIsTheSession == \A i \in OpenPools : session = i

====
